---- MODULE Spec2Model ----
(***************************************************************************)
(* Upload-processing pipeline of server.js (cluster worker: HTTPS request  *)
(* server, per-upload worker thread, report store) and of log-processor.js *)
(* (the worker thread: SHA-256 accumulator and readline line counter).     *)
(*                                                                         *)
(* Bytes are one-character strings; "LF" and "CR" stand for \n and \r.     *)
(* A chunk (a Buffer) is a sequence of bytes.                              *)
(***************************************************************************)
EXTENDS Integers, Sequences, FiniteSets, TLC

VARIABLES
    \* ---- request side (server.js, one entry per upload request) ----
    clients,     \* the requests that will be made
    plan,        \* the body each client sends, as the chunks it arrives in
    reqState,    \* "idle" | "open" | "ended" | "errored" | "closed"
    body,        \* chunks delivered by req 'data' events, in order
    sent,        \* messages accepted by the worker's inbound port, in order
    resStatus,   \* status of the response written (0: none yet)
    hpc,         \* position of the async 'message' listener: "idle", "mkdir",
                 \* "open", "write", then "done" (stored), "rejected" (an assert
                 \* failed) or "failed" (mkdir or writeFile threw)
    hrep,        \* the report that listener is working on
    sRead,       \* number of worker outcomes the server has handled
    procAlive,   \* the cluster worker process is running
    dirExists,   \* REPORTS_DIR exists
    files,       \* REPORTS_DIR: file name (hash) -> content
    \* ---- worker thread (log-processor.js) ----
    wState,      \* "none" | "running" | "faulted" | "terminated"
    wRead,       \* messages handled by parentPort.on('message')
    rlRead,      \* items of incomingStream consumed by readline
    hash,        \* state of the sha256 accumulator
    rl,          \* readline's buffer and mark, with lineCount and errorCount
    outcomes,    \* what the worker emitted to its parent, in order
    \* ---- chunking harness (inputs of the pure-function checks) ----
    cInput,      \* the byte sequence B
    cPos,        \* bytes of B already delivered
    cCuts,       \* what the chunk boundaries so far fell on
    cPhase,      \* "off" | "feeding" | "done"
    \* ---- routing and GET /archive (server.js) ----
    reqLine,     \* method and url of the request each client makes
    execState,   \* the tar child process of a request: "none" | "running", then
                 \* its exit: "ok" | "nodir" | "failed"
    archive,     \* reports.tar.gz: absent, partial, or the store contents it bundles
    \* ---- cluster primary (server.js, clustered_server.js) ----
    loopI,       \* iterations of the fork loop done so far
    forks,       \* cluster.fork() calls so far; worker processes are numbered by them
    live,        \* the worker processes that are running
    exits,       \* worker exits whose 'exit' event is not yet handled, in order
    \* ---- fetchDataWithRetry and main (resilient_data_processor.js) ----
    maxRetries,  \* the argument of fetchDataWithRetry
    attempt,     \* the attempt number of the call that is under way
    fPhase,      \* "off" | "fetching" | "waiting" | "resolved" | "rejected"
    fLog,        \* the attempts made so far: [attempt, ok], in order
    fData,       \* what the promise of fetchDataWithRetry resolved with
    mainPc,      \* main(): "await" | "demo" | "end" | "caught"
    \* ---- chunked DataProcessor (part_005, lines 1-106) ----
    totalCount,      \* this.totalCount
    processedCount,  \* this.processedCount
    dpTimers,        \* setTimeout(() => this._processNextChunk(), 0) pending
    dpEvents,        \* the events emitted so far, with processedCount and
                     \* totalCount as they were at the emit
    dpStarts,        \* calls of startProcessing so far
    \* ---- auth service, POST /signup (part_006) ----
    aBody,           \* the JSON body of each signup request
    aPc,             \* "idle" | "hashing" | "done"
    aStatus,         \* the status written to each response, 0 while none is
    aSalt,           \* the salt drawn for each request
    userDatabase     \* the Map: username -> [salt, hash]

vars == <<clients, plan, reqState, body, sent, resStatus, hpc, hrep, sRead, procAlive,
          dirExists, files, wState, wRead, rlRead, hash, rl, outcomes, cInput, cPos, cCuts, cPhase,
          reqLine, execState, archive, loopI, forks, live, exits,
          maxRetries, attempt, fPhase, fLog, fData, mainPc,
          totalCount, processedCount, dpTimers, dpEvents, dpStarts,
          aBody, aPc, aStatus, aSalt, userDatabase>>

serverVars == <<clients, plan, reqState, body, sent, resStatus, hpc, hrep, sRead, procAlive,
                dirExists, files>>
workerVars == <<wState, wRead, rlRead, hash, rl, outcomes>>
chunkVars == <<cInput, cPos, cCuts, cPhase>>
routeVars == <<reqLine, execState, archive>>
superVars == <<loopI, forks, live, exits>>
fetchVars == <<maxRetries, attempt, fPhase, fLog, fData, mainPc>>
dpVars == <<totalCount, processedCount, dpTimers, dpEvents, dpStarts>>
authVars == <<aBody, aPc, aStatus, aSalt, userDatabase>>
sideVars == <<fetchVars, dpVars, authVars>>

-----------------------------------------------------------------------------
(* Bounds of the model *)

NumReqs == 2
MaxChunks == 2
MaxTokens == 3

Reqs == 1..NumReqs

-----------------------------------------------------------------------------
(* Sequences of bytes *)

LF == "LF"
CR == "CR"

RECURSIVE Concat(_)
Concat(ss) == IF ss = <<>> THEN <<>> ELSE Head(ss) \o Concat(Tail(ss))

Drop(s, n) == SubSeq(s, n + 1, Len(s))
Take(s, n) == SubSeq(s, 1, n)

\* String.prototype.includes(sub)
Includes(s, sub) ==
    \E i \in 0..(Len(s) - Len(sub)) : SubSeq(s, i + 1, i + Len(sub)) = sub

MarkerError == <<"E", "R", "R", "O", "R">>
MarkerCritical == <<"C", "R", "I", "T", "I", "C", "A", "L">>

-----------------------------------------------------------------------------
(* crypto.createHash('sha256'): an iterated function of the bytes absorbed *)

Code(b) ==
    CASE b = LF -> 10 [] b = CR -> 13 [] b = "a" -> 97 [] b = "b" -> 98
      [] b = "E" -> 69 [] b = "R" -> 82 [] b = "O" -> 79 [] b = "C" -> 67
      [] b = "I" -> 73 [] b = "T" -> 84 [] b = "A" -> 65 [] b = "L" -> 76
      [] OTHER -> 63

HashInit == 7

HashByte(h, b) == (h * 257 + Code(b) + 1) % 1000003

RECURSIVE HashBytes(_, _)
HashBytes(h, s) == IF s = <<>> THEN h ELSE HashBytes(HashByte(h, Head(s)), Tail(s))

\* An update that also absorbs where the chunk ends
HashUpdateFramed(h, data) == HashByte(HashBytes(h, data), "|")

\* hash.update(message.data)
HashUpdate(h, data) == HashBytes(h, data)

-----------------------------------------------------------------------------
(* readline.createInterface({input, crlfDelay: Infinity}), non-terminal     *)
(* input: lines end at LF, CR LF or a CR not followed by LF.               *)

\* string.split(lineEnding) with lineEnding = /\r?\n|\r(?!\n)/ : the complete
\* lines of s, and what follows the last line ending.
RECURSIVE SplitLines(_, _, _)
SplitLines(s, cur, acc) ==
    IF s = <<>> THEN [lines |-> acc, rest |-> cur]
    ELSE IF Head(s) = LF THEN SplitLines(Tail(s), <<>>, Append(acc, cur))
    ELSE IF Head(s) = CR
         THEN IF Len(s) >= 2 /\ s[2] = LF
              THEN SplitLines(Drop(s, 2), <<>>, Append(acc, cur))
              ELSE SplitLines(Tail(s), <<>>, Append(acc, cur))
    ELSE SplitLines(Tail(s), Append(cur, Head(s)), acc)

ContainsEnding(s) == \E i \in 1..Len(s) : s[i] = LF \/ s[i] = CR

\* A 'line' listener that looks for "ERROR" alone
IsErrorLineOneMarker(line) == Includes(line, MarkerError)

\* rl.on('line'): lineCount++, and errorCount++ for a line holding a marker
IsErrorLine(line) == Includes(line, MarkerError) \/ Includes(line, MarkerCritical)

RECURSIVE OnLines(_, _)
OnLines(st, ls) ==
    IF ls = <<>> THEN st
    ELSE OnLines([st EXCEPT !.lineCount = @ + 1,
                            !.errorCount = IF IsErrorLine(Head(ls)) THEN @ + 1 ELSE @],
                 Tail(ls))

RlInit == [buf |-> <<>>, saw |-> FALSE, lineCount |-> 0, errorCount |-> 0]

\* A readline whose crlfDelay has elapsed: the LF that opens a chunk is no
\* longer joined to the CR that closed the previous one.
RlWriteNoJoin(st, data) ==
    IF ContainsEnding(data)
    THEN LET sp == SplitLines(st.buf \o data, <<>>, <<>>)
         IN  OnLines([st EXCEPT !.buf = sp.rest,
                                !.saw = (data[Len(data)] = CR)], sp.lines)
    ELSE [st EXCEPT !.buf = @ \o data, !.saw = FALSE]

\* Interface[kNormalWrite](b): one 'data' event of incomingStream
RlWrite(st, data) ==
    LET string == IF st.saw /\ data # <<>> /\ Head(data) = LF
                  THEN Tail(data) ELSE data
    IN  IF ContainsEnding(string)
        THEN LET whole == st.buf \o string
                 sp == SplitLines(whole, <<>>, <<>>)
             IN  OnLines([st EXCEPT !.buf = sp.rest,
                                    !.saw = (whole[Len(whole)] = CR)], sp.lines)
        ELSE [st EXCEPT !.buf = @ \o string, !.saw = FALSE]

\* A readline that drops the line still buffered when the input ends
RlEndNoFlush(st) == st

\* input 'end': a non-empty buffered line is emitted, then 'close'
RlEnd(st) ==
    IF Len(st.buf) > 0 THEN OnLines([st EXCEPT !.buf = <<>>], <<st.buf>>) ELSE st

-----------------------------------------------------------------------------
(* JavaScript values as they cross the message channel *)

Str(n, v) == [t |-> "string", len |-> n, v |-> v, int |-> FALSE]
Num(n) == [t |-> "number", len |-> 0, v |-> n, int |-> TRUE]
Frac(n) == [t |-> "number", len |-> 0, v |-> n, int |-> FALSE]   \* n + 1/2
Undefined == [t |-> "undefined", len |-> 0, v |-> 0, int |-> FALSE]

\* Length of hash.digest('hex') for sha256
DigestHexLen == 64

\* The object posted by rl.on('close')
MakeReport(h, st) ==
    [status |-> "success",
     finalHash |-> Str(DigestHexLen, h),
     lineCount |-> Num(st.lineCount),
     errorCount |-> Num(st.errorCount)]

NoReport == [status |-> "none", finalHash |-> Undefined,
             lineCount |-> Undefined, errorCount |-> Undefined]

ChunkMsg(c) == [type |-> "chunk", data |-> c]
EndMsg == [type |-> "end", data |-> <<>>]

ReportEvent(rep) == [kind |-> "report", report |-> rep]
ErrorEvent == [kind |-> "error", report |-> NoReport]

-----------------------------------------------------------------------------
(* server.js: the 'message' listener's checks and what it stores *)

\* Asserts that test the counts for truth instead of their type: 0 fails them
ValidTruthy(report) ==
    /\ report.status = "success"
    /\ report.finalHash.t = "string"
    /\ report.finalHash.len > 10
    /\ report.lineCount.t = "number" /\ report.lineCount.v # 0

\* The four asserts of the try block
Valid(report) ==
    /\ report.status = "success"
    /\ report.finalHash.t = "string"
    /\ report.finalHash.len > 10
    /\ report.lineCount.t = "number"

\* `${report.finalHash}.json` under REPORTS_DIR
ReportFileName(report) == report.finalHash

\* JSON.stringify(report, null, 2): a property that is undefined is left out
JsonVal(x) == IF x.t = "undefined" THEN [x EXCEPT !.t = "omitted"] ELSE x

ReportContent(report) ==
    [status |-> report.status,
     finalHash |-> JsonVal(report.finalHash),
     lineCount |-> JsonVal(report.lineCount),
     errorCount |-> JsonVal(report.errorCount)]

\* A file opened with 'w' and not yet written
Truncated == [status |-> "truncated", finalHash |-> Undefined,
              lineCount |-> Undefined, errorCount |-> Undefined]

\* A write that leaves nothing else in the directory
PutFileClobber(fs, name, content) == [n \in {name} |-> content]

PutFile(fs, name, content) ==
    [n \in DOMAIN fs \cup {name} |-> IF n = name THEN content ELSE fs[n]]

WorkerAlive(r) == procAlive /\ wState[r] = "running"

\* res.writeHead(code) ; res.end(...) in a synchronous listener: writeHead
\* throws ERR_HTTP_HEADERS_SENT once a response was written, and the uncaught
\* exception ends the process.
WriteHeadUncaught(r, code) ==
    IF resStatus[r] = 0
    THEN /\ resStatus' = [resStatus EXCEPT ![r] = code]
         /\ procAlive' = procAlive
    ELSE /\ resStatus' = resStatus
         /\ procAlive' = FALSE

\* The same call in the catch block of the async 'message' listener: the throw
\* rejects the listener's promise, which nothing handles. The process ends
\* (the default since Node 15) or only warns (before), as the runtime has it.
WriteHeadRejects(r, code) ==
    IF resStatus[r] = 0
    THEN /\ resStatus' = [resStatus EXCEPT ![r] = code]
         /\ procAlive' = procAlive
    ELSE /\ resStatus' = resStatus
         /\ procAlive' \in BOOLEAN

-----------------------------------------------------------------------------
(* server.js: the routes of the request listener *)

PostUpload == [method |-> "POST", url |-> "/upload"]
GetArchive == [method |-> "GET", url |-> "/archive"]

\* A route that looks at the url alone
RouteByUrl(line) ==
    IF line.url = "/upload" THEN "upload"
    ELSE IF line.url = "/archive" THEN "archive"
    ELSE "other"

\* The branch the listener takes: req.url and req.method compared with ===
Route(line) ==
    IF line.url = "/upload" /\ line.method = "POST" THEN "upload"
    ELSE IF line.url = "/archive" /\ line.method = "GET" THEN "archive"
    ELSE "other"

-----------------------------------------------------------------------------
(* Initial state: the process listens, no request has arrived *)

\* Request-body chunks a 'data' event may carry
Pieces == { <<"a", CR>>, <<LF, "E", "R", "R", "O", "R">> }

\* Every body of at most n chunks
RECURSIVE BodiesUpTo(_)
BodiesUpTo(n) ==
    IF n = 0 THEN { <<>> }
    ELSE LET shorter == BodiesUpTo(n - 1)
         IN  shorter \cup { Append(b, c) : b \in shorter, c \in Pieces }

\* The bodies of the clients that upload side by side
TwoBodies == { <<>>, << <<"a", LF>> >> }

InitServer ==
    /\ reqState = [r \in Reqs |-> "idle"]
    /\ body = [r \in Reqs |-> <<>>]
    /\ sent = [r \in Reqs |-> <<>>]
    /\ resStatus = [r \in Reqs |-> 0]
    /\ hpc = [r \in Reqs |-> "idle"]
    /\ hrep = [r \in Reqs |-> NoReport]
    /\ sRead = [r \in Reqs |-> 0]
    /\ procAlive = TRUE
    /\ files = << >>

InitWorker ==
    /\ wState = [r \in Reqs |-> "none"]
    /\ wRead = [r \in Reqs |-> 0]
    /\ rlRead = [r \in Reqs |-> 0]
    /\ hash = [r \in Reqs |-> HashInit]
    /\ rl = [r \in Reqs |-> RlInit]
    /\ outcomes = [r \in Reqs |-> <<>>]

InitChunkOff ==
    /\ cInput = <<>>
    /\ cPos = 0
    /\ cCuts = {}
    /\ cPhase = "off"

\* reports.tar.gz: missing, left unfinished by a failed tar, or bundling fs
NoArchive == [state |-> "absent", content |-> << >>]
PartialArchive == [state |-> "partial", content |-> << >>]
ArchiveOf(fs) == [state |-> "complete", content |-> fs]

\* No tar child process yet, no archive file
InitArchive ==
    /\ execState = [r \in Reqs |-> "none"]
    /\ archive = NoArchive

\* Every client makes a POST /upload
InitUploads ==
    /\ reqLine = [r \in Reqs |-> PostUpload]
    /\ InitArchive

\* The cluster primary is left out of the picture
InitSuperOff ==
    /\ loopI = 0
    /\ forks = 0
    /\ live = {}
    /\ exits = <<>>

\* Nothing fetched yet
NoData == [bad |-> FALSE, value |-> -1]

\* fetchDataWithRetry is not called
InitFetchOff ==
    /\ maxRetries = 0
    /\ attempt = 0
    /\ fPhase = "off"
    /\ fLog = <<>>
    /\ fData = NoData
    /\ mainPc = "end"

\* lines 17-21 of part_005: the DataProcessor as its constructor leaves it
InitDp ==
    /\ totalCount = 0
    /\ processedCount = 0
    /\ dpTimers = 0
    /\ dpEvents = <<>>
    /\ dpStarts = 0

\* The auth service with no request and an empty userDatabase
InitAuthOff ==
    /\ aBody = <<>>
    /\ aPc = <<>>
    /\ aStatus = <<>>
    /\ aSalt = <<>>
    /\ userDatabase = << >>

\* The three small programs of the repository are left out of the picture
InitSideOff == InitFetchOff /\ InitDp /\ InitAuthOff

\* One client, any body of at most MaxChunks chunks
Init ==
    /\ clients = {1}
    /\ plan \in [Reqs -> BodiesUpTo(MaxChunks)]
    /\ \A r \in Reqs \ {1} : plan[r] = <<>>
    /\ dirExists \in BOOLEAN
    /\ InitServer /\ InitWorker /\ InitChunkOff /\ InitUploads /\ InitSuperOff /\ InitSideOff

\* NumReqs clients side by side; those after the second send empty bodies
InitTwo ==
    /\ clients = Reqs
    /\ plan \in [Reqs -> TwoBodies]
    /\ \A r \in Reqs : r > 2 => plan[r] = <<>>
    /\ dirExists = FALSE
    /\ InitServer /\ InitWorker /\ InitChunkOff /\ InitUploads /\ InitSuperOff /\ InitSideOff

-----------------------------------------------------------------------------
(* server.js, POST /upload: the request's events *)

\* lines 44-46: the route is taken and the worker thread is spawned.
\* Requests are numbered in the order they arrive.
Arrive(r) ==
    /\ procAlive
    /\ r \in clients
    /\ Route(reqLine[r]) = "upload"
    /\ reqState[r] = "idle"
    /\ \A q \in clients : q < r => reqState[q] # "idle"
    /\ reqState' = [reqState EXCEPT ![r] = "open"]
    /\ wState' = [wState EXCEPT ![r] = "running"]
    /\ UNCHANGED <<clients, plan, body, sent, resStatus, hpc, hrep, sRead, procAlive,
                   dirExists, files, wRead, rlRead, hash, rl, outcomes, chunkVars, routeVars, superVars, sideVars>>

\* A handler whose worker is a variable shared by the requests: the message
\* goes to the worker spawned last
PostMessageShared(r, m) ==
    LET w == CHOOSE q \in Reqs :
                 /\ wState[q] # "none"
                 /\ \A p \in Reqs : wState[p] # "none" => p <= q
    IN  sent' = [sent EXCEPT ![w] = IF wState[w] = "running" THEN Append(@, m) ELSE @]

\* worker.postMessage(m): queued for a running thread, dropped otherwise
PostMessage(r, m) ==
    sent' = [sent EXCEPT ![r] = IF wState[r] = "running" THEN Append(@, m) ELSE @]

\* req.on('data')
ReqData(r) ==
    /\ procAlive
    /\ reqState[r] = "open"
    /\ Len(body[r]) < Len(plan[r])
    /\ LET chunk == plan[r][Len(body[r]) + 1]
       IN  /\ body' = [body EXCEPT ![r] = Append(@, chunk)]
           /\ PostMessage(r, ChunkMsg(chunk))
    /\ UNCHANGED <<clients, plan, reqState, resStatus, hpc, hrep, sRead, procAlive,
                   dirExists, files, workerVars, chunkVars, routeVars, superVars, sideVars>>

\* req.on('end')
ReqEnd(r) ==
    /\ procAlive
    /\ reqState[r] = "open"
    /\ Len(body[r]) = Len(plan[r])
    /\ reqState' = [reqState EXCEPT ![r] = "ended"]
    /\ PostMessage(r, EndMsg)
    /\ UNCHANGED <<clients, plan, body, resStatus, hpc, hrep, sRead, procAlive,
                   dirExists, files, workerVars, chunkVars, routeVars, superVars, sideVars>>

\* req.on('error'): terminate the worker, then write the 500
ReqError(r) ==
    /\ procAlive
    /\ reqState[r] \in {"open", "ended"}
    /\ reqState' = [reqState EXCEPT ![r] = "errored"]
    /\ wState' = [wState EXCEPT ![r] = IF @ = "running" THEN "terminated" ELSE @]
    /\ WriteHeadUncaught(r, 500)
    /\ UNCHANGED <<clients, plan, body, sent, hpc, hrep, sRead, dirExists, files,
                   wRead, rlRead, hash, rl, outcomes, chunkVars, routeVars, superVars, sideVars>>

\* The connection closes before the body is complete and the request emits
\* no 'error' ('aborted' and 'close' only): no listener of the handler runs.
ReqClose(r) ==
    /\ procAlive
    /\ reqState[r] = "open"
    /\ reqState' = [reqState EXCEPT ![r] = "closed"]
    /\ UNCHANGED <<clients, plan, body, sent, resStatus, hpc, hrep, sRead, procAlive,
                   dirExists, files, workerVars, chunkVars, routeVars, superVars, sideVars>>

-----------------------------------------------------------------------------
(* log-processor.js: the worker thread *)

\* rl has seen the end of incomingStream and has closed
RlClosed(r) == \E i \in 1..rlRead[r] : sent[r][i].type = "end"

\* A handler that takes the newest message instead of the oldest
NextMessageNewest(r) == sent[r][Len(sent[r]) - wRead[r]]

\* The message the port delivers next: the oldest one not yet handled
NextMessage(r) == sent[r][wRead[r] + 1]

\* A 'message' listener that posts the report itself when 'end' comes, from
\* the counters as they stand, without waiting for readline to close
WorkerOnMessageReportsOnEnd(r) ==
    /\ WorkerAlive(r)
    /\ wRead[r] < Len(sent[r])
    /\ wRead' = [wRead EXCEPT ![r] = @ + 1]
    /\ LET m == NextMessage(r)
       IN  IF m.type = "chunk"
           THEN /\ hash' = [hash EXCEPT ![r] = HashUpdate(@, m.data)]
                /\ UNCHANGED outcomes
           ELSE /\ outcomes' = [outcomes EXCEPT ![r] =
                                   Append(@, ReportEvent(MakeReport(hash[r], RlEnd(rl[r]))))]
                /\ UNCHANGED hash
    /\ UNCHANGED <<serverVars, wState, rlRead, rl, chunkVars, routeVars, superVars, sideVars>>

\* incomingStream.push(null) has been called: an 'end' message was handled
EndHandled(r) == \E i \in 1..wRead[r] : sent[r][i].type = "end"

\* parentPort.on('message'): hash.update and incomingStream.push for a chunk,
\* incomingStream.push(null) for 'end' (a second push(null) does nothing). A
\* chunk that comes after 'end' throws: hash.update once digest() was called
\* (ERR_CRYPTO_HASH_FINALIZED), the push into the ended stream otherwise
\* (ERR_STREAM_PUSH_AFTER_EOF, unhandled). The uncaught exception ends the
\* thread and the parent gets 'error'.
WorkerOnMessage(r) ==
    /\ WorkerAlive(r)
    /\ wRead[r] < Len(sent[r])
    /\ wRead' = [wRead EXCEPT ![r] = @ + 1]
    /\ LET m == NextMessage(r)
       IN  IF m.type = "chunk" /\ EndHandled(r)
           THEN /\ wState' = [wState EXCEPT ![r] = "faulted"]
                /\ outcomes' = [outcomes EXCEPT ![r] = Append(@, ErrorEvent)]
                /\ UNCHANGED hash
           ELSE /\ hash' = [hash EXCEPT ![r] =
                               IF m.type = "chunk" THEN HashUpdate(@, m.data) ELSE @]
                /\ UNCHANGED <<wState, outcomes>>
    /\ UNCHANGED <<serverVars, rlRead, rl, chunkVars, routeVars, superVars, sideVars>>

\* A worker that posts a report from every 'data' event, not from 'close' alone
RlOnDataReportsEach(r) ==
    /\ WorkerAlive(r)
    /\ rlRead[r] < wRead[r]
    /\ ~RlClosed(r)
    /\ rlRead' = [rlRead EXCEPT ![r] = @ + 1]
    /\ LET m == sent[r][rlRead[r] + 1]
           st == IF m.type = "chunk" THEN RlWrite(rl[r], m.data) ELSE RlEnd(rl[r])
       IN  /\ rl' = [rl EXCEPT ![r] = st]
           /\ outcomes' = [outcomes EXCEPT ![r] =
                  Append(@, ReportEvent(MakeReport(hash[r], st)))]
    /\ UNCHANGED <<serverVars, wState, wRead, hash, chunkVars, routeVars, superVars, sideVars>>

\* readline takes the next item of incomingStream: a chunk goes through
\* kNormalWrite and rl.on('line'); the end of the stream closes rl, and
\* rl.on('close') posts the report with hash.digest('hex')
RlOnData(r) ==
    /\ WorkerAlive(r)
    /\ rlRead[r] < wRead[r]
    /\ ~RlClosed(r)
    /\ rlRead' = [rlRead EXCEPT ![r] = @ + 1]
    /\ LET m == sent[r][rlRead[r] + 1]
           st == IF m.type = "chunk" THEN RlWrite(rl[r], m.data) ELSE RlEnd(rl[r])
       IN  /\ rl' = [rl EXCEPT ![r] = st]
           /\ outcomes' = [outcomes EXCEPT ![r] =
                  IF m.type = "end"
                  THEN Append(@, ReportEvent(MakeReport(hash[r], st)))
                  ELSE @]
    /\ UNCHANGED <<serverVars, wState, wRead, hash, chunkVars, routeVars, superVars, sideVars>>

\* A script that catches the exception and posts the error itself: the thread
\* goes on after the error signal
WorkerFaultCaught(r) ==
    /\ WorkerAlive(r)
    /\ ~RlClosed(r)
    /\ outcomes[r] = <<>>
    /\ outcomes' = [outcomes EXCEPT ![r] = Append(@, ErrorEvent)]
    /\ UNCHANGED <<serverVars, wState, wRead, rlRead, hash, rl, chunkVars, routeVars, superVars, sideVars>>

\* An uncaught exception in the thread before it has reported: the parent
\* gets 'error' and the thread is gone
WorkerFault(r) ==
    /\ WorkerAlive(r)
    /\ ~RlClosed(r)
    /\ outcomes[r] = <<>>
    /\ wState' = [wState EXCEPT ![r] = "faulted"]
    /\ outcomes' = [outcomes EXCEPT ![r] = Append(@, ErrorEvent)]
    /\ UNCHANGED <<serverVars, wRead, rlRead, hash, rl, chunkVars, routeVars, superVars, sideVars>>

-----------------------------------------------------------------------------
(* server.js: the worker's events *)

HasOutcome(r, k) ==
    /\ sRead[r] < Len(outcomes[r])
    /\ outcomes[r][sRead[r] + 1].kind = k

\* The catch block: 400 for an AssertionError, 500 otherwise; its writeHead
\* is not guarded, so a second response rejects the listener's promise
Catch(r, statusCode) ==
    /\ WriteHeadRejects(r, statusCode)
    /\ hpc' = [hpc EXCEPT ![r] = IF statusCode = 400 THEN "rejected" ELSE "failed"]

\* A server that handles the reports in the order of the requests: a report
\* waits until every earlier upload has its response
OnMessageInOrder(r) ==
    /\ procAlive
    /\ HasOutcome(r, "report")
    /\ hpc[r] = "idle"
    /\ \A q \in Reqs : (q < r /\ wState[q] # "none") => resStatus[q] # 0
    /\ sRead' = [sRead EXCEPT ![r] = @ + 1]
    /\ LET report == outcomes[r][sRead[r] + 1].report
       IN  /\ hrep' = [hrep EXCEPT ![r] = report]
           /\ IF Valid(report)
              THEN /\ hpc' = [hpc EXCEPT ![r] = "mkdir"]
                   /\ UNCHANGED <<resStatus, procAlive>>
              ELSE Catch(r, 400)
    /\ UNCHANGED <<clients, plan, reqState, body, sent, dirExists, files, workerVars, chunkVars, routeVars, superVars, sideVars>>

\* logProcessorWorker.on('message'), up to the first await
OnMessage(r) ==
    /\ procAlive
    /\ HasOutcome(r, "report")
    /\ hpc[r] = "idle"
    /\ sRead' = [sRead EXCEPT ![r] = @ + 1]
    /\ LET report == outcomes[r][sRead[r] + 1].report
       IN  /\ hrep' = [hrep EXCEPT ![r] = report]
           /\ IF Valid(report)
              THEN /\ hpc' = [hpc EXCEPT ![r] = "mkdir"]
                   /\ UNCHANGED <<resStatus, procAlive>>
              ELSE Catch(r, 400)
    /\ UNCHANGED <<clients, plan, reqState, body, sent, dirExists, files, workerVars, chunkVars, routeVars, superVars, sideVars>>

\* await fsp.mkdir(REPORTS_DIR, {recursive: true})
Mkdir(r, ok) ==
    /\ procAlive
    /\ hpc[r] = "mkdir"
    /\ IF ok
       THEN /\ dirExists' = TRUE
            /\ hpc' = [hpc EXCEPT ![r] = "open"]
            /\ UNCHANGED <<resStatus, procAlive>>
       ELSE /\ Catch(r, 500)
            /\ UNCHANGED dirExists
    /\ UNCHANGED <<clients, plan, reqState, body, sent, hrep, sRead, files, workerVars, chunkVars, routeVars, superVars, sideVars>>

\* writeFile without its await: the 200 goes out once the file is opened
WriteOpenNoAwait(r, ok) ==
    /\ procAlive
    /\ hpc[r] = "open"
    /\ IF ok /\ dirExists
       THEN /\ files' = PutFile(files, ReportFileName(hrep[r]), Truncated)
            /\ hpc' = [hpc EXCEPT ![r] = "done"]
            /\ resStatus' = [resStatus EXCEPT ![r] = IF @ = 0 THEN 200 ELSE @]
            /\ UNCHANGED procAlive
       ELSE /\ Catch(r, 500)
            /\ UNCHANGED files
    /\ UNCHANGED <<clients, plan, reqState, body, sent, hrep, sRead, dirExists, workerVars, chunkVars, routeVars, superVars, sideVars>>

\* fsp.writeFile, first half: the file is opened with flag 'w'
WriteOpen(r, ok) ==
    /\ procAlive
    /\ hpc[r] = "open"
    /\ IF ok /\ dirExists
       THEN /\ files' = PutFile(files, ReportFileName(hrep[r]), Truncated)
            /\ hpc' = [hpc EXCEPT ![r] = "write"]
            /\ UNCHANGED <<resStatus, procAlive>>
       ELSE /\ Catch(r, 500)
            /\ UNCHANGED files
    /\ UNCHANGED <<clients, plan, reqState, body, sent, hrep, sRead, dirExists, workerVars, chunkVars, routeVars, superVars, sideVars>>

\* fsp.writeFile, second half, then lines 78-82: the 200 is written inside
\* the try block, so a throw of writeHead lands in the catch block, whose own
\* writeHead throws again
WriteFinish(r, ok) ==
    /\ procAlive
    /\ hpc[r] = "write"
    /\ IF ok
       THEN /\ files' = PutFile(files, ReportFileName(hrep[r]), ReportContent(hrep[r]))
            /\ IF resStatus[r] = 0
               THEN /\ resStatus' = [resStatus EXCEPT ![r] = 200]
                    /\ hpc' = [hpc EXCEPT ![r] = "done"]
                    /\ UNCHANGED procAlive
               ELSE /\ UNCHANGED resStatus
                    /\ procAlive' \in BOOLEAN
                    /\ hpc' = [hpc EXCEPT ![r] = "done"]
       ELSE /\ Catch(r, 500)
            /\ UNCHANGED files
    /\ UNCHANGED <<clients, plan, reqState, body, sent, hrep, sRead, dirExists, workerVars, chunkVars, routeVars, superVars, sideVars>>

\* An 'error' listener that logs and writes no response
OnWorkerErrorSilent(r) ==
    /\ procAlive
    /\ HasOutcome(r, "error")
    /\ sRead' = [sRead EXCEPT ![r] = @ + 1]
    /\ UNCHANGED <<clients, plan, reqState, body, sent, resStatus, hpc, hrep,
                   procAlive, dirExists, files, workerVars, chunkVars, routeVars, superVars, sideVars>>

\* An 'error' listener that spawns the worker afresh instead of answering
OnWorkerErrorRespawns(r) ==
    /\ procAlive
    /\ HasOutcome(r, "error")
    /\ sRead' = [sRead EXCEPT ![r] = 0]
    /\ wState' = [wState EXCEPT ![r] = "running"]
    /\ wRead' = [wRead EXCEPT ![r] = 0]
    /\ rlRead' = [rlRead EXCEPT ![r] = 0]
    /\ hash' = [hash EXCEPT ![r] = HashInit]
    /\ rl' = [rl EXCEPT ![r] = RlInit]
    /\ outcomes' = [outcomes EXCEPT ![r] = <<>>]
    /\ UNCHANGED <<clients, plan, reqState, body, sent, resStatus, hpc, hrep,
                   procAlive, dirExists, files, chunkVars, routeVars, superVars, sideVars>>

\* logProcessorWorker.on('error')
OnWorkerError(r) ==
    /\ procAlive
    /\ HasOutcome(r, "error")
    /\ sRead' = [sRead EXCEPT ![r] = @ + 1]
    /\ WriteHeadUncaught(r, 500)
    /\ UNCHANGED <<clients, plan, reqState, body, sent, hpc, hrep, dirExists, files,
                   workerVars, chunkVars, routeVars, superVars, sideVars>>

-----------------------------------------------------------------------------
Next ==
    \/ \E r \in Reqs : Arrive(r)
    \/ \E r \in Reqs : ReqData(r)
    \/ \E r \in Reqs : ReqEnd(r)
    \/ \E r \in Reqs : ReqError(r)
    \/ \E r \in Reqs : ReqClose(r)
    \/ \E r \in Reqs : WorkerOnMessage(r)
    \/ \E r \in Reqs : RlOnData(r)
    \/ \E r \in Reqs : WorkerFault(r)
    \/ \E r \in Reqs : OnMessage(r)
    \/ \E r \in Reqs, ok \in BOOLEAN : Mkdir(r, ok)
    \/ \E r \in Reqs, ok \in BOOLEAN : WriteOpen(r, ok)
    \/ \E r \in Reqs, ok \in BOOLEAN : WriteFinish(r, ok)
    \/ \E r \in Reqs : OnWorkerError(r)

Spec == Init /\ [][Next]_vars

SpecTwo == InitTwo /\ [][Next]_vars

\* Scheduling: the event loop runs every callback that is pending, a file
\* operation that was started completes (with or without an error), and a
\* worker thread with a message or a stream item to handle gets to run.
\* Nothing obliges the client, the network or the thread to fail.
Fairness ==
    \A r \in Reqs :
        /\ WF_vars(ReqData(r))
        /\ WF_vars(ReqEnd(r))
        /\ WF_vars(WorkerOnMessage(r))
        /\ WF_vars(RlOnData(r))
        /\ WF_vars(OnMessage(r))
        /\ WF_vars(\E ok \in BOOLEAN : Mkdir(r, ok))
        /\ WF_vars(\E ok \in BOOLEAN : WriteOpen(r, ok))
        /\ WF_vars(\E ok \in BOOLEAN : WriteFinish(r, ok))
        /\ WF_vars(OnWorkerError(r))

SpecFair == Init /\ [][Next]_vars /\ Fairness

-----------------------------------------------------------------------------
(* Clients that upload one after the other: each sends its request once    *)
(* the one before has its response.                                         *)

\* The same bytes in one chunk and in two, and other bytes
SeqBodies == { << <<"a", LF>> >>, << <<"a">>, <<LF>> >>, << <<"b">> >> }

\* A first upload and a second one
InitSeq ==
    /\ clients = {1, 2}
    /\ plan \in [Reqs -> SeqBodies \cup { <<>> }]
    /\ \A r \in Reqs : plan[r] = <<>> <=> r \notin clients
    /\ dirExists = FALSE
    /\ InitServer /\ InitWorker /\ InitChunkOff /\ InitUploads /\ InitSuperOff /\ InitSideOff

ArriveNext(r) ==
    /\ \A q \in clients : q < r => resStatus[q] # 0
    /\ Arrive(r)

NextSeq ==
    \/ \E r \in Reqs : ArriveNext(r)
    \/ \E r \in Reqs : ReqData(r)
    \/ \E r \in Reqs : ReqEnd(r)
    \/ \E r \in Reqs : ReqError(r)
    \/ \E r \in Reqs : ReqClose(r)
    \/ \E r \in Reqs : WorkerOnMessage(r)
    \/ \E r \in Reqs : RlOnData(r)
    \/ \E r \in Reqs : WorkerFault(r)
    \/ \E r \in Reqs : OnMessage(r)
    \/ \E r \in Reqs, ok \in BOOLEAN : Mkdir(r, ok)
    \/ \E r \in Reqs, ok \in BOOLEAN : WriteOpen(r, ok)
    \/ \E r \in Reqs, ok \in BOOLEAN : WriteFinish(r, ok)
    \/ \E r \in Reqs : OnWorkerError(r)

SpecSeq == InitSeq /\ [][NextSeq]_vars

-----------------------------------------------------------------------------
(* Requests of any method and url: the three branches of the listener       *)

Methods == { "GET", "POST" }
Urls == { "/upload", "/archive", "/upload?x=1", "/" }
Lines == [method : Methods, url : Urls]

\* Clients with empty bodies, each with a request line of its own
InitRoute ==
    /\ clients = Reqs
    /\ plan = [r \in Reqs |-> <<>>]
    /\ reqLine \in [Reqs -> Lines]
    /\ dirExists = FALSE
    /\ InitServer /\ InitWorker /\ InitChunkOff /\ InitArchive /\ InitSuperOff /\ InitSideOff

\* A handler that runs one tar at a time and keeps it away from a report
\* write: the request is held while a command runs or a write is under way
ArriveArchiveLocked(r) ==
    /\ procAlive
    /\ r \in clients
    /\ Route(reqLine[r]) = "archive"
    /\ reqState[r] = "idle"
    /\ \A q \in clients : q < r => reqState[q] # "idle"
    /\ \A q \in Reqs : execState[q] # "running" /\ hpc[q] \notin {"open", "write"}
    /\ reqState' = [reqState EXCEPT ![r] = "routed"]
    /\ execState' = [execState EXCEPT ![r] = "running"]
    /\ UNCHANGED <<clients, plan, body, sent, resStatus, hpc, hrep, sRead, procAlive,
                   dirExists, files, workerVars, chunkVars, reqLine, archive, superVars, sideVars>>

\* lines 111-119: GET /archive starts tar through exec; no listener is put on
\* the request
ArriveArchive(r) ==
    /\ procAlive
    /\ r \in clients
    /\ Route(reqLine[r]) = "archive"
    /\ reqState[r] = "idle"
    /\ \A q \in clients : q < r => reqState[q] # "idle"
    /\ reqState' = [reqState EXCEPT ![r] = "routed"]
    /\ execState' = [execState EXCEPT ![r] = "running"]
    /\ UNCHANGED <<clients, plan, body, sent, resStatus, hpc, hrep, sRead, procAlive,
                   dirExists, files, workerVars, chunkVars, reqLine, archive, superVars, sideVars>>

\* The exit of tar as exec reports it: "nodir" when REPORTS_DIR is missing
\* (tar cannot change into it and exits with status 2), "failed" when tar
\* fails for a reason outside the program (envOk false), "ok" for status 0
TarResult(envOk) ==
    IF ~dirExists THEN "nodir" ELSE IF envOk THEN "ok" ELSE "failed"

\* A callback that answers 200 without looking at err
ExecExitIgnoresErr(r, ok) ==
    /\ procAlive
    /\ execState[r] = "running"
    /\ execState' = [execState EXCEPT ![r] = TarResult(ok)]
    /\ archive' = IF TarResult(ok) = "ok" THEN ArchiveOf(files) ELSE archive
    /\ WriteHeadUncaught(r, 200)
    /\ UNCHANGED <<clients, plan, reqState, body, sent, hpc, hrep, sRead,
                   dirExists, files, workerVars, chunkVars, reqLine, superVars, sideVars>>

\* A callback that rethrows err instead of answering 500
ExecExitThrows(r, ok) ==
    /\ procAlive
    /\ execState[r] = "running"
    /\ execState' = [execState EXCEPT ![r] = TarResult(ok)]
    /\ IF TarResult(ok) = "ok"
       THEN /\ archive' = ArchiveOf(files)
            /\ WriteHeadUncaught(r, 200)
       ELSE /\ archive' = archive
            /\ procAlive' = FALSE
            /\ UNCHANGED resStatus
    /\ UNCHANGED <<clients, plan, reqState, body, sent, hpc, hrep, sRead,
                   dirExists, files, workerVars, chunkVars, reqLine, superVars, sideVars>>

\* lines 119-129: the callback of exec, run when the child has exited: err is
\* set for every exit but status 0. A tar that ends well has written the store
\* as it stands; a failed tar may leave a partial archive behind.
ExecExit(r, ok) ==
    /\ procAlive
    /\ execState[r] = "running"
    /\ execState' = [execState EXCEPT ![r] = TarResult(ok)]
    /\ IF TarResult(ok) = "ok"
       THEN /\ archive' = ArchiveOf(files)
            /\ WriteHeadUncaught(r, 200)
       ELSE /\ archive' \in {archive, PartialArchive}
            /\ WriteHeadUncaught(r, 500)
    /\ UNCHANGED <<clients, plan, reqState, body, sent, hpc, hrep, sRead,
                   dirExists, files, workerVars, chunkVars, reqLine, superVars, sideVars>>

\* lines 131-135: any other request is answered 404
ArriveOther(r) ==
    /\ procAlive
    /\ r \in clients
    /\ Route(reqLine[r]) = "other"
    /\ reqState[r] = "idle"
    /\ \A q \in clients : q < r => reqState[q] # "idle"
    /\ reqState' = [reqState EXCEPT ![r] = "routed"]
    /\ WriteHeadUncaught(r, 404)
    /\ UNCHANGED <<clients, plan, body, sent, hpc, hrep, sRead,
                   dirExists, files, workerVars, chunkVars, routeVars, superVars, sideVars>>

NextRoute ==
    \/ \E r \in Reqs : Arrive(r)
    \/ \E r \in Reqs : ArriveArchive(r)
    \/ \E r \in Reqs : ArriveOther(r)
    \/ \E r \in Reqs, ok \in BOOLEAN : ExecExit(r, ok)
    \/ \E r \in Reqs : ReqEnd(r)
    \/ \E r \in Reqs : ReqError(r)
    \/ \E r \in Reqs : WorkerOnMessage(r)
    \/ \E r \in Reqs : RlOnData(r)
    \/ \E r \in Reqs : WorkerFault(r)
    \/ \E r \in Reqs : OnMessage(r)
    \/ \E r \in Reqs, ok \in BOOLEAN : Mkdir(r, ok)
    \/ \E r \in Reqs, ok \in BOOLEAN : WriteOpen(r, ok)
    \/ \E r \in Reqs, ok \in BOOLEAN : WriteFinish(r, ok)
    \/ \E r \in Reqs : OnWorkerError(r)

SpecRoute == InitRoute /\ [][NextRoute]_vars

\* The first request aside, every callback that is pending gets to run, every
\* file operation and every tar that was started completes, and the worker
\* threads get to run. Nothing is asked of the first request or of its
\* worker thread, which may stay as they are for ever.
FairnessOthers ==
    \A r \in Reqs \ {1} :
        /\ WF_vars(ReqEnd(r))
        /\ WF_vars(WorkerOnMessage(r))
        /\ WF_vars(RlOnData(r))
        /\ WF_vars(OnMessage(r))
        /\ WF_vars(\E ok \in BOOLEAN : Mkdir(r, ok))
        /\ WF_vars(\E ok \in BOOLEAN : WriteOpen(r, ok))
        /\ WF_vars(\E ok \in BOOLEAN : WriteFinish(r, ok))
        /\ WF_vars(OnWorkerError(r))
        /\ WF_vars(\E ok \in BOOLEAN : ExecExit(r, ok))

SpecRouteFair == InitRoute /\ [][NextRoute]_vars /\ FairnessOthers

-----------------------------------------------------------------------------
(* The request server facing any worker script: the thread posts one        *)
(* object of the report's shape, whatever its fields hold.                  *)

HashValues ==
    { Undefined, Num(5), Str(0, 0), Str(10, 1), Str(11, 2), Str(DigestHexLen, 3) }
CountValues == { Undefined, Num(-1), Num(0), Num(2), Frac(1), Str(1, 0) }

AnyReports ==
    [status : {"success", "error"}, finalHash : HashValues,
     lineCount : CountValues, errorCount : CountValues]

WorkerPostAny(r, report) ==
    /\ WorkerAlive(r)
    /\ outcomes[r] = <<>>
    /\ outcomes' = [outcomes EXCEPT ![r] = Append(@, ReportEvent(report))]
    /\ UNCHANGED <<serverVars, wState, wRead, rlRead, hash, rl, chunkVars, routeVars, superVars, sideVars>>

\* The thread ends without a message and without an uncaught exception (the
\* script calls process.exit, or returns with nothing keeping it alive): the
\* Worker emits 'exit' only, which server.js does not listen to
WorkerExitSilent(r) ==
    /\ WorkerAlive(r)
    /\ outcomes[r] = <<>>
    /\ wState' = [wState EXCEPT ![r] = "exited"]
    /\ UNCHANGED <<serverVars, wRead, rlRead, hash, rl, outcomes, chunkVars, routeVars, superVars, sideVars>>

NextAny ==
    \/ \E r \in Reqs : Arrive(r)
    \/ \E r \in Reqs : ReqEnd(r)
    \/ \E r \in Reqs : ReqError(r)
    \/ \E r \in Reqs, report \in AnyReports : WorkerPostAny(r, report)
    \/ \E r \in Reqs : WorkerFault(r)
    \/ \E r \in Reqs : WorkerExitSilent(r)
    \/ \E r \in Reqs : OnMessage(r)
    \/ \E r \in Reqs, ok \in BOOLEAN : Mkdir(r, ok)
    \/ \E r \in Reqs, ok \in BOOLEAN : WriteOpen(r, ok)
    \/ \E r \in Reqs, ok \in BOOLEAN : WriteFinish(r, ok)
    \/ \E r \in Reqs : OnWorkerError(r)

\* One client with an empty body
InitAny ==
    /\ clients = {1}
    /\ plan = [r \in Reqs |-> <<>>]
    /\ dirExists = FALSE
    /\ InitServer /\ InitWorker /\ InitChunkOff /\ InitUploads /\ InitSuperOff /\ InitSideOff

SpecAny == InitAny /\ [][NextAny]_vars

\* The thread does not hang: it posts, throws or exits. The client ends its
\* body, and the server's callbacks and file operations run as in Fairness.
FairnessAny ==
    \A r \in Reqs :
        /\ WF_vars(\/ \E report \in AnyReports : WorkerPostAny(r, report)
                   \/ WorkerFault(r)
                   \/ WorkerExitSilent(r))
        /\ WF_vars(ReqEnd(r))
        /\ WF_vars(OnMessage(r))
        /\ WF_vars(\E ok \in BOOLEAN : Mkdir(r, ok))
        /\ WF_vars(\E ok \in BOOLEAN : WriteOpen(r, ok))
        /\ WF_vars(\E ok \in BOOLEAN : WriteFinish(r, ok))
        /\ WF_vars(OnWorkerError(r))

SpecAnyFair == InitAny /\ [][NextAny]_vars /\ FairnessAny

-----------------------------------------------------------------------------
(* The worker alone, fed one byte sequence cut into chunks at any places:   *)
(* each 'chunk' message is handled to its end (hash.update, push, the       *)
(* lines readline emits), then 'end'.                                        *)

Tokens == { <<LF>>, <<CR>>, <<"a">>, MarkerError }

RECURSIVE InputsUpTo(_)
InputsUpTo(n) ==
    IF n = 0 THEN { <<>> }
    ELSE LET shorter == InputsUpTo(n - 1)
         IN  shorter \cup { b \o t : b \in shorter, t \in Tokens }

InitChunk ==
    /\ cInput \in InputsUpTo(MaxTokens)
    /\ cPos = 0
    /\ cCuts = {}
    /\ cPhase = "feeding"
    /\ clients = {}
    /\ plan = [r \in Reqs |-> <<>>]
    /\ dirExists = FALSE
    /\ InitServer /\ InitWorker /\ InitUploads /\ InitSuperOff /\ InitSideOff

\* What a chunk boundary before byte cPos + 1 falls on
CutKinds ==
    IF cPos = 0 THEN {}
    ELSE {"split"}
         \cup (IF cInput[cPos] = CR /\ cInput[cPos + 1] = LF THEN {"crlf"} ELSE {})
         \cup (IF cInput[cPos] \notin {CR, LF} THEN {"midline"} ELSE {})

\* {type: 'chunk'} carrying the next k bytes of the input
ChunkFeed(k) ==
    /\ cPhase = "feeding"
    /\ cPos + k <= Len(cInput)
    /\ LET data == SubSeq(cInput, cPos + 1, cPos + k)
       IN  /\ hash' = [hash EXCEPT ![1] = HashUpdate(@, data)]
           /\ rl' = [rl EXCEPT ![1] = RlWrite(@, data)]
    /\ cPos' = cPos + k
    /\ cCuts' = cCuts \cup CutKinds
    /\ UNCHANGED <<serverVars, wState, wRead, rlRead, outcomes, cInput, cPhase,
                   routeVars, superVars, sideVars>>

\* {type: 'end'}: the stream ends, rl closes and the report is posted
ChunkEnd ==
    /\ cPhase = "feeding"
    /\ cPos = Len(cInput)
    /\ LET st == RlEnd(rl[1])
       IN  /\ rl' = [rl EXCEPT ![1] = st]
           /\ outcomes' = [outcomes EXCEPT ![1] =
                              Append(@, ReportEvent(MakeReport(hash[1], st)))]
    /\ cPhase' = "done"
    /\ UNCHANGED <<serverVars, wState, wRead, rlRead, hash, cInput, cPos, cCuts,
                   routeVars, superVars, sideVars>>

NextChunk ==
    \/ \E k \in 1..(MaxTokens * Len(MarkerError)) : ChunkFeed(k)
    \/ ChunkEnd

SpecChunk == InitChunk /\ [][NextChunk]_vars

-----------------------------------------------------------------------------
(* The worker thread facing any parent: messages of the two types in any    *)
(* order and number, handled by the script as they come.                    *)

MaxMsgs == 4

\* The thread of one Worker is running; no request is behind it
InitProto ==
    /\ clients = {}
    /\ plan = [r \in Reqs |-> <<>>]
    /\ dirExists = FALSE
    /\ InitServer /\ InitChunkOff /\ InitUploads /\ InitSuperOff /\ InitSideOff
    /\ wState = [r \in Reqs |-> IF r = 1 THEN "running" ELSE "none"]
    /\ wRead = [r \in Reqs |-> 0]
    /\ rlRead = [r \in Reqs |-> 0]
    /\ hash = [r \in Reqs |-> HashInit]
    /\ rl = [r \in Reqs |-> RlInit]
    /\ outcomes = [r \in Reqs |-> <<>>]

\* worker.postMessage(m) by the parent, whatever was posted before
ParentPost(r, m) ==
    /\ wState[r] # "none"
    /\ Len(sent[r]) < MaxMsgs
    /\ PostMessage(r, m)
    /\ UNCHANGED <<clients, plan, reqState, body, resStatus, hpc, hrep, sRead, procAlive,
                   dirExists, files, workerVars, chunkVars, routeVars, superVars, sideVars>>

NextProto ==
    \/ \E r \in Reqs, c \in Pieces : ParentPost(r, ChunkMsg(c))
    \/ \E r \in Reqs : ParentPost(r, EndMsg)
    \/ \E r \in Reqs : WorkerOnMessage(r)
    \/ \E r \in Reqs : RlOnData(r)
    \/ \E r \in Reqs : WorkerFault(r)

SpecProto == InitProto /\ [][NextProto]_vars

-----------------------------------------------------------------------------
(* The cluster primary of server.js and clustered_server.js: it forks one   *)
(* worker process per CPU and forks another on every 'exit' event.          *)

\* os.cpus().length
NumCPUs == 2
\* Worker exits in one run
MaxExits == 4

\* (code, signal) of an 'exit' event: a clean exit, a crash, a kill
ExitKinds ==
    { [code |-> "0", signal |-> "null"],
      [code |-> "1", signal |-> "null"],
      [code |-> "null", signal |-> "SIGKILL"] }

\* Only the primary runs
InitSuper ==
    /\ loopI = 0
    /\ forks = 0
    /\ live = {}
    /\ exits = <<>>
    /\ clients = {}
    /\ plan = [r \in Reqs |-> <<>>]
    /\ dirExists = FALSE
    /\ InitServer /\ InitWorker /\ InitChunkOff /\ InitUploads /\ InitSideOff

\* cluster.fork()
Fork ==
    /\ forks' = forks + 1
    /\ live' = live \cup {forks + 1}

\* One iteration of for (let i = 0; i < numCPUs; i++) cluster.fork()
StartFork ==
    /\ loopI < NumCPUs
    /\ loopI' = loopI + 1
    /\ Fork
    /\ UNCHANGED <<serverVars, workerVars, chunkVars, routeVars, sideVars, exits>>

\* A worker process ends; its 'exit' event is queued for the primary
WorkerExit(w, kind) ==
    /\ w \in live
    /\ (forks - Cardinality(live)) < MaxExits
    /\ live' = live \ {w}
    /\ exits' = Append(exits, [pid |-> w, code |-> kind.code, signal |-> kind.signal])
    /\ UNCHANGED <<serverVars, workerVars, chunkVars, routeVars, sideVars, loopI, forks>>

\* A handler that restarts crashed workers only (exit code other than 0)
OnExitIfCrashed ==
    /\ loopI = NumCPUs
    /\ exits # <<>>
    /\ exits' = Tail(exits)
    /\ IF Head(exits).code # "0" THEN Fork ELSE UNCHANGED <<forks, live>>
    /\ UNCHANGED <<serverVars, workerVars, chunkVars, routeVars, sideVars, loopI>>

\* A handler that takes a signalled exit for a deliberate shutdown
OnExitUnlessKilled ==
    /\ loopI = NumCPUs
    /\ exits # <<>>
    /\ exits' = Tail(exits)
    /\ IF Head(exits).signal = "null" THEN Fork ELSE UNCHANGED <<forks, live>>
    /\ UNCHANGED <<serverVars, workerVars, chunkVars, routeVars, sideVars, loopI>>

\* cluster.on('exit', (worker, code, signal) => cluster.fork()); the fork
\* loop is synchronous, so no event is dispatched before it is over
OnExit ==
    /\ loopI = NumCPUs
    /\ exits # <<>>
    /\ exits' = Tail(exits)
    /\ Fork
    /\ UNCHANGED <<serverVars, workerVars, chunkVars, routeVars, sideVars, loopI>>

NextSuper ==
    \/ StartFork
    \/ \E w \in 1..(NumCPUs + MaxExits), kind \in ExitKinds : WorkerExit(w, kind)
    \/ OnExit

SpecSuper == InitSuper /\ [][NextSuper]_vars

\* The primary's event loop runs: the fork loop goes on to its end and a
\* queued 'exit' event is dispatched
SpecSuperFair == InitSuper /\ [][NextSuper]_vars /\ WF_vars(StartFork) /\ WF_vars(OnExit)

-----------------------------------------------------------------------------
(* resilient_data_processor.js: fetchDataWithRetry, called by main          *)

MaxArg == 4
MaxValue == 1

\* What mockApiFetcher resolves with: 'BAD_DATA_FORMAT' or {id: 101, value}
FetchedData ==
    { [bad |-> TRUE, value |-> 0] } \cup { [bad |-> FALSE, value |-> v] : v \in 0..MaxValue }

\* The upload pipeline and the cluster primary are left out of the picture
InitPipelineOff ==
    /\ clients = {}
    /\ plan = [r \in Reqs |-> <<>>]
    /\ dirExists = FALSE
    /\ InitServer /\ InitWorker /\ InitChunkOff /\ InitUploads /\ InitSuperOff

\* main has called fetchDataWithRetry(maxRetries): attempt is 1 by default and
\* the first mockApiFetcher is under way
InitFetch ==
    /\ maxRetries \in 0..MaxArg
    /\ attempt = 1
    /\ fPhase = "fetching"
    /\ fLog = <<>>
    /\ fData = NoData
    /\ mainPc = "await"
    /\ InitPipelineOff /\ InitDp /\ InitAuthOff

\* A retry test that lets one attempt too many through
MockApiFetcherSettlesOneMore(ok, data) ==
    /\ fPhase = "fetching"
    /\ fLog' = Append(fLog, [attempt |-> attempt, ok |-> ok,
                             data |-> IF ok THEN data ELSE NoData])
    /\ IF ok
       THEN fPhase' = "resolved" /\ fData' = data
       ELSE /\ fPhase' = IF attempt <= maxRetries THEN "waiting" ELSE "rejected"
            /\ UNCHANGED fData
    /\ UNCHANGED <<maxRetries, attempt, mainPc, serverVars, workerVars, chunkVars,
                   routeVars, superVars, dpVars, authVars>>

\* lines 31-50 and 61-76: the timer of mockApiFetcher fires and its promise
\* settles; .then returns the data, .catch waits for a retry when
\* attempt < maxRetries and throws the critical failure otherwise
MockApiFetcherSettles(ok, data) ==
    /\ fPhase = "fetching"
    /\ fLog' = Append(fLog, [attempt |-> attempt, ok |-> ok,
                             data |-> IF ok THEN data ELSE NoData])
    /\ IF ok
       THEN fPhase' = "resolved" /\ fData' = data
       ELSE /\ fPhase' = IF attempt < maxRetries THEN "waiting" ELSE "rejected"
            /\ UNCHANGED fData
    /\ UNCHANGED <<maxRetries, attempt, mainPc, serverVars, workerVars, chunkVars,
                   routeVars, superVars, dpVars, authVars>>

\* lines 68-71: the 1000 ms timer fires and fetchDataWithRetry(maxRetries,
\* attempt + 1) calls mockApiFetcher again
RetryTimer ==
    /\ fPhase = "waiting"
    /\ attempt' = attempt + 1
    /\ fPhase' = "fetching"
    /\ UNCHANGED <<maxRetries, fLog, fData, mainPc, serverVars, workerVars, chunkVars,
                   routeVars, superVars, dpVars, authVars>>

\* lines 128-142: main resumes with the data, has it processed (the processor
\* emits 'error' for the bad format, which main's listener logs) and starts
\* the promise that nothing handles
MainResumes ==
    /\ mainPc = "await"
    /\ fPhase = "resolved"
    /\ mainPc' = "demo"
    /\ UNCHANGED <<maxRetries, attempt, fPhase, fLog, fData, serverVars, workerVars,
                   chunkVars, routeVars, superVars, dpVars, authVars>>

\* lines 15-22, 139-141: the promise rejects after 200 ms and the
\* 'unhandledRejection' listener logs it
MainDemoRejects ==
    /\ mainPc = "demo"
    /\ mainPc' = "end"
    /\ UNCHANGED <<maxRetries, attempt, fPhase, fLog, fData, serverVars, workerVars,
                   chunkVars, routeVars, superVars, dpVars, authVars>>

\* lines 144-147: the catch of main takes the critical failure
MainCatches ==
    /\ mainPc = "await"
    /\ fPhase = "rejected"
    /\ mainPc' = "caught"
    /\ UNCHANGED <<maxRetries, attempt, fPhase, fLog, fData, serverVars, workerVars,
                   chunkVars, routeVars, superVars, dpVars, authVars>>

NextFetch ==
    \/ \E data \in FetchedData : MockApiFetcherSettles(TRUE, data)
    \/ MockApiFetcherSettles(FALSE, NoData)
    \/ RetryTimer
    \/ MainResumes
    \/ MainDemoRejects
    \/ MainCatches

\* Every timer that was set fires, and a settled promise runs its reactions
FairnessFetch ==
    /\ WF_vars(\/ \E data \in FetchedData : MockApiFetcherSettles(TRUE, data)
               \/ MockApiFetcherSettles(FALSE, NoData))
    /\ WF_vars(RetryTimer)
    /\ WF_vars(MainResumes)
    /\ WF_vars(MainDemoRejects)
    /\ WF_vars(MainCatches)

SpecFetchFair == InitFetch /\ [][NextFetch]_vars /\ FairnessFetch

-----------------------------------------------------------------------------
(* part_005, lines 1-106: the chunked DataProcessor and its demonstration   *)

MaxItems == 6
MaxStarts == 2

\* The item at which _processNextChunk simulates a lost connection
ErrorItem == 5

\* this.emit(kind, ...) with the counters as they are at the call; the three
\* listeners of the script only log
DpEvent(kind, count, total) == [kind |-> kind, items |-> count, total |-> total]

\* _processNextChunk on the counters (count, total): what it leaves in
\* processedCount, the events it emits, and whether it sets the next timer
ProcessNextChunk(count, total) ==
    LET c == count + 1
    IN  IF c = ErrorItem
        THEN [count |-> c, emits |-> <<DpEvent("error", c, total)>>, timer |-> 0]
        ELSE LET progress == IF c % 2 = 0 \/ c = 1
                             THEN <<DpEvent("progress", c, total)>> ELSE <<>>
             IN  IF c < total
                 THEN [count |-> c, emits |-> progress, timer |-> 1]
                 ELSE [count |-> c,
                       emits |-> progress \o <<DpEvent("finished", c, total)>>,
                       timer |-> 0]

\* A processor created and its three listeners registered; nothing else runs
InitChunked ==
    /\ InitDp
    /\ InitPipelineOff /\ InitFetchOff /\ InitAuthOff

\* startProcessing(n): the counters are set and the first chunk is processed
\* in the same call; timers set by an earlier call stay pending
StartProcessing(n) ==
    /\ dpStarts < MaxStarts
    /\ dpStarts' = dpStarts + 1
    /\ totalCount' = n
    /\ LET step == ProcessNextChunk(0, n)
       IN  /\ processedCount' = step.count
           /\ dpEvents' = dpEvents \o step.emits
           /\ dpTimers' = dpTimers + step.timer
    /\ UNCHANGED <<serverVars, workerVars, chunkVars, routeVars, superVars,
                   fetchVars, authVars>>

\* A timer set at line 70 fires: _processNextChunk runs once more
DpTimerFires ==
    /\ dpTimers > 0
    /\ LET step == ProcessNextChunk(processedCount, totalCount)
       IN  /\ processedCount' = step.count
           /\ dpEvents' = dpEvents \o step.emits
           /\ dpTimers' = dpTimers - 1 + step.timer
    /\ UNCHANGED <<totalCount, dpStarts, serverVars, workerVars, chunkVars, routeVars,
                   superVars, fetchVars, authVars>>

NextChunked ==
    \/ \E n \in 0..MaxItems : StartProcessing(n)
    \/ DpTimerFires

SpecChunked == InitChunked /\ [][NextChunked]_vars

-----------------------------------------------------------------------------
(* part_006: the auth service, POST /signup                                 *)

NumSignups == 2

SReqs == 1..NumSignups

\* username and password of a body; "" stands for a field that is missing
\* or empty
Usernames == { "ann", "bob" }
Passwords == { "pw1", "pw2" }
SignupBodies == [username : Usernames \cup {""}, password : Passwords \cup {""}]

\* pbkdf2 is a function of the password and the salt
Pbkdf2(password, salt) == [password |-> password, salt |-> salt]

\* userDatabase.set(username, {salt, hash})
MapSet(db, username, entry) ==
    [u \in DOMAIN db \cup {username} |-> IF u = username THEN entry ELSE db[u]]

\* The server is listening; the signup requests are on their way
InitAuth ==
    /\ aBody \in [SReqs -> SignupBodies]
    /\ aPc = [r \in SReqs |-> "idle"]
    /\ aStatus = [r \in SReqs |-> 0]
    /\ aSalt = [r \in SReqs |-> 0]
    /\ userDatabase = << >>
    /\ InitPipelineOff /\ InitFetchOff /\ InitDp

\* lines 77-92: the body is read; a missing field gives 400, a username the
\* Map holds gives 409; otherwise a salt is drawn (crypto.randomBytes, one of
\* its own for every request) and the hashing starts
SignupChecks(r) ==
    /\ aPc[r] = "idle"
    /\ IF aBody[r].username = "" \/ aBody[r].password = ""
       THEN /\ aStatus' = [aStatus EXCEPT ![r] = 400]
            /\ aPc' = [aPc EXCEPT ![r] = "done"]
            /\ UNCHANGED aSalt
       ELSE IF aBody[r].username \in DOMAIN userDatabase
       THEN /\ aStatus' = [aStatus EXCEPT ![r] = 409]
            /\ aPc' = [aPc EXCEPT ![r] = "done"]
            /\ UNCHANGED aSalt
       ELSE /\ aSalt' = [aSalt EXCEPT ![r] = r]
            /\ aPc' = [aPc EXCEPT ![r] = "hashing"]
            /\ UNCHANGED aStatus
    /\ UNCHANGED <<aBody, userDatabase, serverVars, workerVars, chunkVars, routeVars,
                   superVars, fetchVars, dpVars>>

\* lines 42-59, 146-151: getBody rejects (the body is not JSON, or the request
\* emits 'error'); the outer catch answers 500
SignupBodyFails(r) ==
    /\ aPc[r] = "idle"
    /\ aStatus' = [aStatus EXCEPT ![r] = 500]
    /\ aPc' = [aPc EXCEPT ![r] = "done"]
    /\ UNCHANGED <<aBody, aSalt, userDatabase, serverVars, workerVars, chunkVars,
                   routeVars, superVars, fetchVars, dpVars>>

\* lines 92-98, 146-151: pbkdf2 has finished; the entry is stored and 201 is sent. A
\* pbkdf2 that fails rejects the await and the outer catch answers 500.
SignupStores(r, ok) ==
    /\ aPc[r] = "hashing"
    /\ aPc' = [aPc EXCEPT ![r] = "done"]
    /\ IF ok
       THEN /\ userDatabase' =
                   MapSet(userDatabase, aBody[r].username,
                          [salt |-> aSalt[r],
                           hash |-> Pbkdf2(aBody[r].password, aSalt[r])])
            /\ aStatus' = [aStatus EXCEPT ![r] = 201]
       ELSE /\ aStatus' = [aStatus EXCEPT ![r] = 500]
            /\ UNCHANGED userDatabase
    /\ UNCHANGED <<aBody, aSalt, serverVars, workerVars, chunkVars, routeVars,
                   superVars, fetchVars, dpVars>>

NextAuth ==
    \/ \E r \in SReqs : SignupChecks(r)
    \/ \E r \in SReqs : SignupBodyFails(r)
    \/ \E r \in SReqs, ok \in BOOLEAN : SignupStores(r, ok)

SpecAuth == InitAuth /\ [][NextAuth]_vars

-----------------------------------------------------------------------------
(* Properties *)

ChunkMsgs(b) == [i \in 1..Len(b) |-> ChunkMsg(b[i])]

\* The accumulators after the messages ms, taken in order
RECURSIVE HashFold(_, _)
HashFold(h, ms) ==
    IF ms = <<>> THEN h
    ELSE HashFold(IF Head(ms).type = "chunk" THEN HashUpdate(h, Head(ms).data) ELSE h,
                  Tail(ms))

RECURSIVE RlFold(_, _)
RlFold(st, ms) ==
    IF ms = <<>> THEN st
    ELSE RlFold(IF Head(ms).type = "chunk" THEN RlWrite(st, Head(ms).data) ELSE RlEnd(st),
                Tail(ms))

\* C1 as stated: a worker that is gone has given its parent exactly one
\* terminal outcome (a Report or an error signal), never none.
C1_ExactlyOneOutcome ==
    \A r \in Reqs : wState[r] \in {"faulted", "terminated"} => Len(outcomes[r]) = 1

\* C1, amended: the parent gets at most one terminal outcome per worker and
\* handles it at most once; a worker that closes its readline has posted
\* exactly one Report, a worker that faulted exactly one error signal, and a
\* worker that is gone without any outcome was terminated by the
\* request-stream error listener.
C1_AtMostOneOutcome ==
    \A r \in Reqs :
        /\ Len(outcomes[r]) <= 1
        /\ sRead[r] <= Len(outcomes[r])
        /\ RlClosed(r) => (Len(outcomes[r]) = 1 /\ outcomes[r][1].kind = "report")
        /\ wState[r] = "faulted" => outcomes[r] = <<ErrorEvent>>
        /\ (wState[r] \in {"faulted", "terminated"} /\ outcomes[r] = <<>>)
              => (wState[r] = "terminated" /\ reqState[r] = "errored")

C1_Witness ==
    \E r \in Reqs :
        /\ Len(body[r]) = 2
        /\ Len(outcomes[r]) = 1 /\ outcomes[r][1].kind = "report"
        /\ sRead[r] = 1 /\ resStatus[r] = 200

\* C2: the worker's inbound messages are the request's chunks in arrival
\* order, then one 'end' and nothing after it; the worker handles a prefix of
\* them in that order, and the hash and the line accumulator hold exactly
\* what that prefix gives.
C2_MessageOrder ==
    \A r \in Reqs :
        /\ Len(sent[r]) <= Len(body[r]) + 1
        /\ \A i \in 1..Len(sent[r]) :
              IF i <= Len(body[r]) THEN sent[r][i] = ChunkMsg(body[r][i])
              ELSE sent[r][i] = EndMsg /\ reqState[r] \in {"ended", "errored"}
        /\ (reqState[r] = "ended" /\ wState[r] = "running")
              => sent[r] = Append(ChunkMsgs(body[r]), EndMsg)
        /\ rlRead[r] <= wRead[r] /\ wRead[r] <= Len(sent[r])
        /\ hash[r] = HashFold(HashInit, Take(sent[r], wRead[r]))
        /\ rl[r] = RlFold(RlInit, Take(sent[r], rlRead[r]))

C2_Witness ==
    \E r \in Reqs :
        /\ Len(body[r]) = 2 /\ body[r][1] # body[r][2]
        /\ rlRead[r] = 3
        /\ Len(outcomes[r]) = 1

\* The report of B handled as a single chunk (none for the empty input)
WholeReport(B) ==
    IF B = <<>> THEN MakeReport(HashInit, RlEnd(RlInit))
    ELSE MakeReport(HashUpdate(HashInit, B), RlEnd(RlWrite(RlInit, B)))

\* C3: whatever the places B is cut at, the report has the hash, the
\* lineCount and the errorCount of B sent as one chunk.
C3_ChunkInvariance ==
    cPhase = "done" => outcomes[1][1].report = WholeReport(cInput)

C3_Witness ==
    /\ cPhase = "done"
    /\ "crlf" \in cCuts /\ "midline" \in cCuts
    /\ outcomes[1][1].report.errorCount.v = 1

NonNegInt(x) == x.t = "number" /\ x.int /\ x.v >= 0

WellFormed(report) ==
    /\ report.status = "success"
    /\ report.finalHash.t = "string" /\ report.finalHash.len > 0
    /\ NonNegInt(report.lineCount)
    /\ NonNegInt(report.errorCount)

\* C4: a report is accepted exactly when its status is "success", its hash a
\* non-empty string and both counts non-negative integers.
C4_AcceptedIffWellFormed ==
    \A r \in Reqs :
        hpc[r] # "idle" => ((hpc[r] # "rejected") <=> WellFormed(hrep[r]))

\* C5: a report that fails validation is answered 400 and nothing is created
\* or written in the report store.
C5_RejectedIs400 ==
    \A r \in Reqs :
        hpc[r] = "rejected" => (resStatus[r] = 400 /\ ~dirExists /\ files = << >>)

Stored(r) ==
    /\ dirExists
    /\ ReportFileName(hrep[r]) \in DOMAIN files
    /\ files[ReportFileName(hrep[r])] = ReportContent(hrep[r])

\* C6 as stated: in every state where an upload has been answered 200, the
\* file of its hash exists and holds its report.
C6_AnsweredMeansStored ==
    \A r \in Reqs : resStatus[r] = 200 => Stored(r)

\* C6, amended: an upload answered 200 has passed its own complete write, and
\* the file of its hash exists from then on; it holds the report unless
\* another upload of the same hash has opened it for rewriting (and is
\* writing, or failed in the write).
C6_AnsweredMeansWritten ==
    \A r \in Reqs :
        resStatus[r] = 200 =>
            /\ hpc[r] = "done"
            /\ dirExists
            /\ ReportFileName(hrep[r]) \in DOMAIN files
            /\ \/ files[ReportFileName(hrep[r])] = ReportContent(hrep[r])
               \/ /\ files[ReportFileName(hrep[r])] = Truncated
                  /\ \E q \in Reqs \ {r} :
                        /\ ReportFileName(hrep[q]) = ReportFileName(hrep[r])
                        /\ hpc[q] \in {"write", "failed"}

C6_Witness ==
    \E r \in Reqs : resStatus[r] = 200 /\ Stored(r) /\ Len(body[r]) = 1

InFlight(q) == reqState[q] # "idle" /\ resStatus[q] = 0

\* C7: the step in which mkdir or writeFile fails leaves the upload answered
\* 500 and the process serving the other requests in flight.
C7_IoFailureIs500 ==
    [][\A r \in Reqs :
          (hpc[r] # "failed" /\ hpc'[r] = "failed") =>
              /\ resStatus'[r] = 500
              /\ \A q \in Reqs \ {r} : InFlight(q) => procAlive']_vars

\* C8: once the worker's error signal is handled, the upload is answered 500
\* and the worker thread is not running.
C8_FaultIs500 ==
    \A r \in Reqs :
        (sRead[r] = 1 /\ outcomes[r][1].kind = "error")
            => (resStatus[r] = 500 /\ ~WorkerAlive(r))

C8_Witness ==
    \E r \in Reqs :
        /\ sRead[r] = 1 /\ outcomes[r][1].kind = "error"
        /\ reqState[r] = "open" /\ Len(body[r]) = 1
        /\ procAlive

\* C9: the request's 'error' leaves the worker terminated and the upload
\* answered 500, and from then on nothing is written to the report store.
C9_StreamErrorStopsUpload ==
    [][\A r \in clients :
          /\ (reqState[r] # "errored" /\ reqState'[r] = "errored")
                => (resStatus'[r] = 500 /\ wState'[r] # "running")
          /\ reqState[r] = "errored" => files' = files]_vars

\* C10: no worker stays alive, idle, waiting for the 'end' of a request whose
\* connection closed before the end of its body.
C10_NoOrphanWorker ==
    \A r \in Reqs :
        reqState[r] \in {"closed", "errored"}
            => ~(WorkerAlive(r) /\ wRead[r] = Len(sent[r]) /\ rlRead[r] = wRead[r])

\* C11: once an upload has been answered, its worker thread is eventually
\* gone.
C11_WorkerEventuallyDestroyed ==
    \A r \in Reqs : [](resStatus[r] # 0 => <>(~WorkerAlive(r)))

\* 'chunk' messages posted to the worker of r that its 'message' handler has
\* not taken yet
Backlog(r) ==
    Cardinality({ i \in (wRead[r] + 1)..Len(sent[r]) : sent[r][i].type = "chunk" })

\* A capacity of the worker's inbound channel below the length of the longest
\* body (whatever capacity is fixed, some body has more chunks)
ChannelBound == MaxChunks - 1

\* C12: the chunks forwarded and not yet consumed never exceed the capacity of
\* the channel: at capacity, no further 'data' event is taken.
C12_BoundedBacklog ==
    \A r \in Reqs : Backlog(r) <= ChannelBound

\* C13: the live worker processes and the exits not yet handled add up to
\* the forks of the start loop, which are NumCPUs once the loop is over (one
\* fork per exit handled, whatever its code or signal), and the live ones
\* never exceed NumCPUs.
C13_WorkerCount ==
    /\ Cardinality(live) <= NumCPUs
    /\ Cardinality(live) + Len(exits) = loopI
    /\ loopI <= NumCPUs

C13_Witness ==
    /\ loopI = NumCPUs
    /\ Len(exits) = 2
    /\ exits[1].code = "0" /\ exits[2].signal = "SIGKILL" /\ exits[2].pid > NumCPUs

\* C14: whenever fewer than NumCPUs worker processes are live, the count
\* comes back to NumCPUs.
C14_CountReturns ==
    (Cardinality(live) < NumCPUs) ~> (Cardinality(live) = NumCPUs)

C14_Witness ==
    /\ forks = NumCPUs + MaxExits
    /\ Cardinality(live) = NumCPUs
    /\ NumCPUs \notin live

\* C15: two uploads of the same bytes, one after the other and both answered
\* 200, carry the same hash, and the store then holds one file for that hash
\* with the content the first upload wrote.
C15_IdempotentReupload ==
    \A r, q \in Reqs :
        (/\ r < q
         /\ resStatus[r] = 200 /\ resStatus[q] = 200
         /\ Concat(plan[r]) = Concat(plan[q]))
        => /\ hrep[q].finalHash = hrep[r].finalHash
           /\ ReportContent(hrep[q]) = ReportContent(hrep[r])
           /\ Cardinality({ n \in DOMAIN files : n.v = hrep[r].finalHash.v }) = 1
           /\ files[ReportFileName(hrep[r])] = ReportContent(hrep[r])

C15_Witness ==
    /\ resStatus[1] = 200 /\ resStatus[2] = 200
    /\ plan[1] # plan[2]
    /\ Concat(plan[1]) = Concat(plan[2])
    /\ Cardinality(DOMAIN files) = 1

\* An upload that has opened the file n and not written it to its end
Writing(n) ==
    \E q \in Reqs : ReportFileName(hrep[q]) = n /\ hpc[q] \in {"write", "failed"}

\* C16: whatever the interleaving of the uploads' mkdir and writeFile steps,
\* every file of the store belongs to an upload that opened it, and the file
\* of an upload that has stored its report holds the report of that upload's
\* bytes once no upload of the same hash is left inside a write; the files of
\* other hashes make no difference to it.
C16_StoreConverges ==
    /\ \A n \in DOMAIN files :
          \E r \in Reqs : ReportFileName(hrep[r]) = n /\ hpc[r] \in {"write", "done", "failed"}
    /\ \A r \in Reqs :
          hpc[r] = "done" =>
              /\ ReportFileName(hrep[r]) \in DOMAIN files
              /\ ~Writing(ReportFileName(hrep[r])) =>
                    files[ReportFileName(hrep[r])] = ReportContent(WholeReport(Concat(plan[r])))

C16_Witness ==
    /\ hpc[1] = "done" /\ hpc[2] = "write"
    /\ ReportFileName(hrep[1]) # ReportFileName(hrep[2])
    /\ files[ReportFileName(hrep[1])] = ReportContent(hrep[1])
    /\ files[ReportFileName(hrep[2])] = Truncated

\* C17: whatever faults an upload runs into, and in whatever order, the
\* process that serves it keeps running.
C17_ProcessSurvives == procAlive

\* C18: an upload that has arrived gets a response, unless its connection
\* fails first.
C18_EveryUploadAnswered ==
    \A r \in Reqs :
        [](reqState[r] \in {"open", "ended"}
              => <>(resStatus[r] # 0 \/ reqState[r] \in {"errored", "closed"}))

\* C19: a worker exists for a request exactly when its upload route was
\* taken, one per request; the messages a worker is sent are chunks of its own
\* request, in their places, and the report it posts is the report of its own
\* request's bytes.
C19_OneWorkerPerUpload ==
    \A r \in Reqs :
        /\ (wState[r] = "none") <=> (reqState[r] = "idle")
        /\ Len(sent[r]) <= Len(body[r]) + 1
        /\ \A i \in 1..Len(sent[r]) :
              sent[r][i].type = "chunk" =>
                  (i <= Len(plan[r]) /\ sent[r][i].data = plan[r][i])
        /\ \A i \in 1..Len(outcomes[r]) :
              outcomes[r][i].kind = "report" =>
                  outcomes[r][i].report = WholeReport(Concat(plan[r]))

C19_Witness ==
    /\ wState[1] = "running" /\ wState[2] = "running"
    /\ Len(outcomes[1]) = 1 /\ Len(outcomes[2]) = 1
    /\ outcomes[1][1].kind = "report" /\ outcomes[2][1].kind = "report"
    /\ outcomes[1][1].report # outcomes[2][1].report

\* The request of r has been answered 404 in this step
Answers404(r) == resStatus[r] # 404 /\ resStatus'[r] = 404

\* C20: a request that has reached the listener is answered 404 exactly when
\* it is neither POST /upload nor GET /archive; it has no worker thread and no
\* archive command, and the step that answers it changes neither the report
\* store nor the archive file.
C20_NotFound ==
    /\ [](\A r \in Reqs :
             /\ (resStatus[r] = 404)
                   <=> (reqState[r] # "idle" /\ reqLine[r] \notin {PostUpload, GetArchive})
             /\ resStatus[r] = 404 =>
                   (wState[r] = "none" /\ execState[r] = "none" /\ hpc[r] = "idle"))
    /\ [][\A r \in Reqs :
             Answers404(r) =>
                 /\ files' = files /\ dirExists' = dirExists /\ archive' = archive
                 /\ wState' = wState /\ execState' = execState]_vars

C20_Witness ==
    /\ resStatus[2] = 404
    /\ reqLine[2] = [method |-> "GET", url |-> "/upload"]
    /\ resStatus[1] = 200 /\ reqLine[1] = PostUpload
    /\ Cardinality(DOMAIN files) = 1

\* C21: a GET /archive request is answered 200 exactly when its packaging
\* command has exited with success and 500 exactly when the command has
\* failed; it has no other answer, and none while the command runs.
C21_ArchiveAnswer ==
    \A r \in Reqs :
        Route(reqLine[r]) = "archive" =>
            /\ resStatus[r] \in {0, 200, 500}
            /\ resStatus[r] = 200 <=> execState[r] = "ok"
            /\ resStatus[r] = 500 <=> execState[r] \in {"nodir", "failed"}
            /\ resStatus[r] = 0 <=> execState[r] \in {"none", "running"}

C21_Witness ==
    \E r, q \in Reqs :
        /\ Route(reqLine[r]) = "archive" /\ execState[r] = "ok" /\ resStatus[r] = 200
        /\ Route(reqLine[q]) = "upload" /\ resStatus[q] = 200

\* C22: a packaging command that exits while the reports directory is missing
\* is answered 500 and leaves the process running; one that exits while the
\* directory exists and holds no file, and that nothing outside the program
\* fails, is answered 200 and leaves an archive (of no report).
C22_EmptyAndMissingDir ==
    [][\A r \in Reqs :
          (execState[r] = "running" /\ execState'[r] # "running") =>
              /\ ~dirExists =>
                    /\ execState'[r] = "nodir"
                    /\ resStatus'[r] = 500
                    /\ procAlive'
              /\ (dirExists /\ files = << >> /\ execState'[r] # "failed") =>
                    /\ execState'[r] = "ok"
                    /\ resStatus'[r] = 200
                    /\ procAlive'
                    /\ archive' = ArchiveOf(<< >>)]_vars

C22_Witness ==
    \E r \in Reqs :
        /\ Route(reqLine[r]) = "archive" /\ execState[r] = "ok" /\ resStatus[r] = 200
        /\ dirExists /\ files = << >> /\ archive = ArchiveOf(<< >>) /\ procAlive

\* The line terminators of B: every CR (alone or before an LF) and every LF
\* that does not follow a CR
Terminators(B) ==
    Cardinality({ i \in 1..Len(B) :
                    B[i] = CR \/ (B[i] = LF /\ (i = 1 \/ B[i - 1] # CR)) })

TrailingBytes(B) == B # << >> /\ B[Len(B)] \notin {CR, LF}

\* C23: lineCount is the number of terminated lines, plus one exactly when
\* bytes follow the last terminator; "a\nb\nc" and "a\nb\nc\n" both give 3 and
\* the empty input gives 0.
C23_LineCount ==
    /\ cPhase = "done" =>
          outcomes[1][1].report.lineCount =
              Num(Terminators(cInput) + (IF TrailingBytes(cInput) THEN 1 ELSE 0))
    /\ WholeReport(<<"a", LF, "b", LF, "c">>).lineCount = Num(3)
    /\ WholeReport(<<"a", LF, "b", LF, "c", LF>>).lineCount = Num(3)
    /\ WholeReport(<< >>).lineCount = Num(0)

C23_Witness ==
    /\ cPhase = "done"
    /\ cInput = <<"a", CR, LF>>
    /\ "crlf" \in cCuts
    /\ outcomes[1][1].report.lineCount = Num(1)

\* Where the lines of B begin, and the line that begins at s
LineStarts(B) ==
    { s \in 1..Len(B) :
        s = 1 \/ B[s - 1] = LF \/ (B[s - 1] = CR /\ B[s] # LF) }

LineAt(B, s) ==
    LET ends == { e \in s..Len(B) : B[e] \in {CR, LF} }
        stop == IF ends = {} THEN Len(B) + 1
                ELSE CHOOSE e \in ends : \A f \in ends : e <= f
    IN  SubSeq(B, s, stop - 1)

HasMarker(line) == Includes(line, MarkerError) \/ Includes(line, MarkerCritical)

ExampleLog ==
    <<"o", "k", LF>> \o MarkerError \o <<" ", "x", LF>>
        \o MarkerCritical \o <<" ", "y", LF, "o", "k">>

\* C24: errorCount is the number of lines that hold a marker, a line with
\* several markers counting once, and it never exceeds lineCount; the lines
\* ok, ERROR x, CRITICAL y, ok give lineCount 4 and errorCount 2.
C24_ErrorLineCount ==
    /\ cPhase = "done" =>
          LET report == outcomes[1][1].report
          IN  /\ report.errorCount =
                    Num(Cardinality({ s \in LineStarts(cInput) :
                                        HasMarker(LineAt(cInput, s)) }))
              /\ report.errorCount.v <= report.lineCount.v
    /\ WholeReport(ExampleLog).lineCount = Num(4)
    /\ WholeReport(ExampleLog).errorCount = Num(2)
    /\ WholeReport(MarkerError \o MarkerCritical \o MarkerError).errorCount = Num(1)

C24_Witness ==
    /\ cPhase = "done"
    /\ cInput = MarkerError \o MarkerError \o <<"a">>
    /\ "midline" \in cCuts
    /\ outcomes[1][1].report.errorCount = Num(1)
    /\ outcomes[1][1].report.lineCount = Num(1)

IsReport(e) == e.kind = "report"

Reports(r) == { i \in 1..Len(outcomes[r]) : IsReport(outcomes[r][i]) }

\* C25 as stated: no Report before the 'end' message has been received,
\* nothing emitted after the terminal message, and at most one Report
\* whatever follows 'end'.
C25_ForwardOnly ==
    \A r \in Reqs :
        /\ Reports(r) # {} => EndHandled(r)
        /\ Len(outcomes[r]) <= 1
        /\ Cardinality(Reports(r)) <= 1

\* The first thing the worker gave its parent is the error signal
FaultedFirst(r) == outcomes[r] # <<>> /\ outcomes[r][1].kind = "error"

\* C26: a worker that faults before it has reported gives its parent the
\* error signal and nothing else, no Report before or after; its thread is
\* gone, and from then on it handles no message and changes no accumulator.
C26_FaultIsTerminal ==
    /\ [](\A r \in Reqs :
             FaultedFirst(r) =>
                 (outcomes[r] = <<ErrorEvent>> /\ wState[r] = "faulted"))
    /\ [][\A r \in Reqs :
             FaultedFirst(r) =>
                 /\ wState'[r] = wState[r]
                 /\ wRead'[r] = wRead[r] /\ rlRead'[r] = rlRead[r]
                 /\ hash'[r] = hash[r] /\ rl'[r] = rl[r]
                 /\ outcomes'[r] = outcomes[r]]_vars

C26_Witness ==
    \E r \in Reqs :
        /\ FaultedFirst(r) /\ wState[r] = "faulted"
        /\ wRead[r] < Len(sent[r])
        /\ reqState[r] = "errored"

\* C27 as stated: once no report write is under way, every upload answered
\* 200 has the file of its hash in the store, and every file of the store is
\* the file of an upload answered 200 (or what a failed write left behind):
\* an upload answered 400 or 500 for a validation, worker or stream failure
\* has put no file there.
C27_StoreMatchesAnswers ==
    (\A r \in Reqs : hpc[r] \notin {"mkdir", "open", "write"}) =>
        /\ \A r \in Reqs :
              resStatus[r] = 200 => ReportFileName(hrep[r]) \in DOMAIN files
        /\ \A n \in DOMAIN files :
              \E r \in Reqs :
                  /\ ReportFileName(hrep[r]) = n
                  /\ resStatus[r] = 200 \/ hpc[r] = "failed"

\* The first request is an upload waiting for the terminal message of its
\* worker
Suspended(r) ==
    /\ Route(reqLine[r]) = "upload"
    /\ reqState[r] \in {"open", "ended"}
    /\ wState[r] = "running" /\ outcomes[r] = <<>>
    /\ resStatus[r] = 0

\* C28: whatever the first request does, and if its worker never answers,
\* every other request that the process has accepted (upload, archive or any
\* other) is answered in the end, as long as the process lives.
C28_Independent ==
    \A r \in Reqs \ {1} :
        [](reqState[r] # "idle" => <>(resStatus[r] # 0 \/ ~procAlive))

C28_Witness ==
    /\ Suspended(1)
    /\ \E r \in Reqs \ {1} :
          Route(reqLine[r]) = "upload" /\ hpc[r] = "done" /\ resStatus[r] = 200

\* A GET /archive that is next for the request listener
ArchiveNext(r) ==
    /\ procAlive /\ r \in clients
    /\ Route(reqLine[r]) = "archive"
    /\ reqState[r] = "idle"
    /\ \A q \in clients : q < r => reqState[q] # "idle"

C30_NoRetry ==
    /\ [](\A r \in Reqs :
             /\ execState[r] # "none" <=>
                    (reqState[r] # "idle" /\ Route(reqLine[r]) = "archive")
             /\ wState[r] # "none" <=>
                    (reqState[r] # "idle" /\ Route(reqLine[r]) = "upload"))
    /\ [][\A r \in Reqs :
             /\ execState[r] \notin {"none", "running"} => execState'[r] = execState[r]
             /\ execState[r] = "running" => execState'[r] # "none"
             /\ wState[r] \notin {"none", "running"} => wState'[r] = wState[r]
             /\ wState[r] = "running" => wState'[r] # "none"]_vars

C30_Witness ==
    \E r, q \in Reqs :
        /\ execState[r] = "nodir" /\ resStatus[r] = 500
        /\ wState[q] = "faulted" /\ sRead[q] = 1 /\ resStatus[q] = 500
        /\ procAlive

\* A step in which a listener of request r calls res.writeHead: the request's
\* 'error' listener, the worker's 'error' listener, or the 'message' listener
\* reaching its 200 or its catch block
CallsWriteHead(r) ==
    \/ reqState[r] # "errored" /\ reqState'[r] = "errored"
    \/ sRead'[r] = sRead[r] + 1 /\ outcomes[r][sRead[r] + 1].kind = "error"
    \/ hpc'[r] # hpc[r] /\ hpc'[r] \in {"done", "rejected", "failed"}

ChunksOf(ms) == SelectSeq(ms, LAMBDA m : m.type = "chunk")

BeforeEnd(ms) ==
    LET ends == { i \in 1..Len(ms) : ms[i].type = "end" }
    IN  IF ends = {} THEN ChunksOf(ms)
        ELSE ChunksOf(Take(ms, (CHOOSE i \in ends : \A j \in ends : i <= j) - 1))

\* The step in which the worker of r posts a Report
EmitsReport(r) ==
    /\ Len(outcomes'[r]) = Len(outcomes[r]) + 1
    /\ outcomes'[r][Len(outcomes'[r])].kind = "report"

\* C32: in the step that posts the Report, the chunks the hash has taken and
\* the chunks readline has taken are the same sequence, every chunk sent
\* before 'end', and the Report holds the digest and the counts of exactly
\* those.
C32_SameBytes ==
    [][\A r \in Reqs :
          EmitsReport(r) =>
              LET hashed == ChunksOf(Take(sent[r], wRead[r]))
                  lined == ChunksOf(Take(sent[r], rlRead[r]))
                  all == BeforeEnd(sent[r])
              IN  /\ hashed = all
                  /\ lined = all
                  /\ outcomes'[r][Len(outcomes'[r])].report =
                         MakeReport(HashFold(HashInit, all), RlEnd(RlFold(RlInit, all)))]_vars

C32_Witness ==
    \E r \in Reqs :
        /\ Len(outcomes[r]) = 1 /\ outcomes[r][1].kind = "report"
        /\ Len(BeforeEnd(sent[r])) = 2
        /\ outcomes[r][1].report.lineCount.v >= 1
        /\ reqState[r] = "ended"

\* C33 as stated: no step of an upload whose worker has faulted or whose
\* request stream has failed changes a file of the report store; the archive
\* changes only in the step in which a packaging command exits; and a step of
\* an archive request (its start, its exit) leaves the report store as it is.
C33_FrameEffects ==
    [][/\ \A r \in Reqs :
             ((reqState[r] = "errored" \/ wState[r] = "faulted") /\ hpc'[r] # hpc[r])
                 => files' = files
       /\ archive' # archive =>
             \E r \in Reqs : execState[r] = "running" /\ execState'[r] # "running"
       /\ (\E r \in Reqs : execState'[r] # execState[r]) =>
             (files' = files /\ dirExists' = dirExists)]_vars

\* The report of no bytes: the digest of the untouched hash, no line
EmptyReport == MakeReport(HashInit, RlInit)

\* C34: the worker of an upload with an empty body posts the report of no
\* bytes (status success, the hash of the empty input, lineCount 0,
\* errorCount 0); the server never rejects it, and once its write has run to
\* the end the file of that hash holds it and the upload is answered 200,
\* unless the request stream failed meanwhile.
C34_EmptyUpload ==
    \A r \in clients :
        plan[r] = << >> =>
            /\ \A i \in 1..Len(outcomes[r]) :
                  outcomes[r][i].kind = "report" =>
                      /\ outcomes[r][i].report = EmptyReport
                      /\ outcomes[r][i].report.lineCount = Num(0)
                      /\ outcomes[r][i].report.errorCount = Num(0)
                      /\ outcomes[r][i].report.status = "success"
                      /\ WellFormed(outcomes[r][i].report)
            /\ hpc[r] # "rejected" /\ resStatus[r] # 400
            /\ hpc[r] = "done" =>
                  /\ files[ReportFileName(EmptyReport)] = ReportContent(EmptyReport)
                  /\ reqState[r] # "errored" => resStatus[r] = 200

C34_Witness ==
    \E r \in clients :
        /\ plan[r] = << >> /\ sent[r] = <<EndMsg>>
        /\ hpc[r] = "done" /\ resStatus[r] = 200
        /\ files[ReportFileName(EmptyReport)] = ReportContent(EmptyReport)

\* C35: for maxRetries >= 1 the attempts are numbered 1, 2, ... and never
\* pass maxRetries; none follows a success; the promise is resolved exactly
\* when the last attempt made succeeded, with the data of that attempt, and
\* rejected exactly when maxRetries attempts were made and all failed; and
\* the call comes to one of the two ends.
C35_RetryBound ==
    /\ [](maxRetries >= 1 =>
             /\ attempt <= maxRetries
             /\ attempt = Len(fLog) + (IF fPhase = "fetching" THEN 1 ELSE 0)
             /\ \A i \in 1..Len(fLog) :
                   /\ fLog[i].attempt = i
                   /\ i < Len(fLog) => ~fLog[i].ok
             /\ fPhase = "resolved" <=>
                   (fLog # <<>> /\ fLog[Len(fLog)].ok /\ fData = fLog[Len(fLog)].data)
             /\ fPhase = "rejected" <=>
                   (Len(fLog) = maxRetries /\ \A i \in 1..Len(fLog) : ~fLog[i].ok))
    /\ <>(fPhase \in {"resolved", "rejected"})

C35_Witness ==
    /\ maxRetries = 3
    /\ fPhase = "resolved" /\ Len(fLog) = 3
    /\ ~fLog[1].ok /\ ~fLog[2].ok /\ fLog[3].ok
    /\ mainPc = "end"

\* C36 as stated, for one call of startProcessing(n) with any n >= 0:
\* nothing is emitted after 'error', 'finished' is emitted at most once and
\* with processedCount equal to totalCount, and processedCount never exceeds
\* totalCount.
C36_ErrorHalts ==
    dpStarts = 1 =>
        /\ \A i, j \in 1..Len(dpEvents) :
              (i < j /\ dpEvents[i].kind = "error") => dpEvents[j].kind = "error"
        /\ Cardinality({ i \in 1..Len(dpEvents) : dpEvents[i].kind = "finished" }) <= 1
        /\ \A i \in 1..Len(dpEvents) :
              dpEvents[i].kind = "finished" => dpEvents[i].items = dpEvents[i].total
        /\ processedCount <= totalCount

\* C37 as stated: of the signups for one username at most one is answered
\* 201, the others that name it get 409 once it is stored, and an entry of
\* userDatabase is never replaced.
C37_SignupUnique ==
    /\ [](\A u \in Usernames :
             Cardinality({ r \in SReqs : aBody[r].username = u /\ aStatus[r] = 201 }) <= 1)
    /\ [][\A u \in DOMAIN userDatabase :
             u \in DOMAIN userDatabase' /\ userDatabase'[u] = userDatabase[u]]_vars

=============================================================================
